---------------------------- MODULE Spec2Model ----------------------------
(***************************************************************************)
(* A model of the news scraper's persistence and crawl-planning core:      *)
(*   news_scraper/database.py     NewsDatabase  (the SQLite article store)  *)
(*   news_scraper/pipelines.py    SQLitePipeline                            *)
(*   news_scraper/middlewares.py  NewsScraperDownloaderMiddleware           *)
(*   news_scraper/spiders/base.py SitemapIndexSpider.start_requests         *)
(*   news_scraper/gemini_client.py _call_gemini                             *)
(*                                                                         *)
(* Two crawl runs (two scrapy processes) share one database file.  Each    *)
(* run owns one pipeline connection; a connection's INSERT is visible to   *)
(* others only after its commit.  Python's None / SQL NULL is the empty    *)
(* tuple, so that every nullable value is a tuple and can be compared.     *)
(***************************************************************************)
EXTENDS Integers, Sequences, FiniteSets, TLC

VARIABLES
    articles,     \* the committed rows of table articles (the database file)
    txn,          \* txn[r]: rows inserted on run r's connection, not yet committed
    writer,       \* the run whose connection holds the write lock, or "none"
    name,         \* name[r]: spider.name of run r
    skip,         \* skip[r]: setting SKIP_OUTPUT_URLS of run r
    mw,           \* mw[r]: state of the downloader middleware of run r
    output_urls,  \* output_urls[r]: the middleware's list of already scraped urls
    lastreq,      \* lastreq[r]: the last request given to process_request, and its outcome
    pipe,         \* pipe[r]: position of run r's pipeline / insert_article call
    cur,          \* cur[r]: the item of the current (or last) process_item call
    rowcount,     \* rowcount[r]: cursor.rowcount of the current call
    ret,          \* ret[r]: what the last insert_article call returned
    call,         \* call[r]: facts about the current (or last) insert_article call
    plan,         \* the spider of run r1: its settings and its start_requests generator
    db,           \* the dashboard's NewsDatabase: the calls made on it and the last result
    gemini        \* the current (or last) invocation of gemini_client._call_gemini

vars == <<articles, txn, writer, name, skip, mw, output_urls, lastreq,
          pipe, cur, rowcount, ret, call, plan, db, gemini>>

storeVars == <<articles, txn, writer, pipe, cur, rowcount, ret, call>>
mwVars    == <<mw, output_urls, lastreq>>

-----------------------------------------------------------------------------
(* Bounds *)

MaxUrls  == 2      \* distinct article urls
MaxCalls == 4      \* insert_article calls made on the dashboard's NewsDatabase

None == <<>>

Runs    == {"r1", "r2"}
Spiders == {"A", "B"}
Urls    == {<<i>> : i \in 1..MaxUrls}

\* date_published values carried by items: ISO text, as its components
ItemDates == {<<2024, 2, 15>>}

\* what the extractors hand to the pipeline: url may be missing
Items == [url : Urls \cup {None}, date_published : ItemDates]

-----------------------------------------------------------------------------
(* NewsDatabase: the table and its statements *)

HasUrl(rows, u) == \E row \in rows : row.url = u

\* article.get(key): None when the dict has no such key
Get(article, key) == IF key \in DOMAIN article THEN article[key] ELSE None

\* the column values insert_article binds (article.get(...), spider_name); of
\* the columns, url, spider_name, date_published and the three text columns
\* are carried, and a row is known by them (id and created_at are the table's
\* own)
Row(article, spider_name) ==
    [url |-> Get(article, "url"),
     spider_name |-> spider_name,
     date_published |-> Get(article, "date_published"),
     title |-> Get(article, "title"),
     description |-> Get(article, "description"),
     article_text |-> Get(article, "article_text")]

\* INSERT OR REPLACE: a row of the same url is deleted and the new one stored
InsertOrReplace(rows, row) ==
    IF row.url = None THEN rows
    ELSE {x \in rows : x.url # row.url} \cup {row}

\* INSERT OR IGNORE without the table's constraints
InsertUnchecked(rows, row) == rows \cup {row}

\* INSERT OR IGNORE INTO articles, with url TEXT UNIQUE NOT NULL: a row that
\* violates NOT NULL or UNIQUE is skipped
InsertOrIgnore(rows, row) ==
    IF row.url = None \/ HasUrl(rows, row.url) THEN rows ELSE rows \cup {row}

\* what a connection sees: the committed rows and its own pending ones
View(r) == articles \cup txn[r]

\* get_unique_urls(spider_name): SELECT url FROM articles [WHERE spider_name = ?];
\* "if spider_name:" adds the filter unless the name is None or empty (here "")
get_unique_urls(rows, spider_name) ==
    {row.url : row \in {x \in rows : spider_name = "" \/ x.spider_name = spider_name}}


-----------------------------------------------------------------------------
(* Initial state: an empty database file, two runs not yet started *)

\* call[r] records, for the claims, what an insert_article call did:
\*   absent     its url was not stored when the call began
\*   attempted  its INSERT statement was executed
\*   fault      its try block raised (a storage fault)
\*   raised     the call raised to its caller
\*   delta      the rows its commit added to the committed table
NoCall == [absent |-> FALSE, attempted |-> FALSE, fault |-> FALSE,
           raised |-> FALSE, delta |-> {}]
NoItem == [url |-> None, date_published |-> None]
\* lastreq[r].stored: the url was stored for the run's spider when it was requested
NoRequest == [url |-> None, ignored |-> FALSE, stored |-> FALSE]

\* the filters of get_articles, get_article_count and export_to_csv, all left
\* at their default None
NoFilter == [spider_name |-> "", search_query |-> None,
             start_date |-> None, end_date |-> None]
\* no file at the export's filepath
NoFile == [exists |-> FALSE, header |-> <<>>, data |-> <<>>]
\* db before any call: op is the function last called, f/limit/offset its
\* arguments, result what it returned (a list, a count or the statistics),
\* file what export_to_csv left at its filepath; urls, sources and calls
\* remember the insert_article calls made: their urls, spider names and number;
\* row is the row the last insert_article call bound; created_at is the column
\* created_at of the stored rows, as pairs <<url, time>>
NoQuery == [op |-> "none", f |-> NoFilter, limit |-> 0, offset |-> 0,
            result |-> <<>>, file |-> NoFile,
            urls |-> {}, sources |-> {}, calls |-> 0,
            row |-> Row(NoItem, ""), created_at |-> {}]

\* _call_gemini not yet invoked: pc is the place of the invocation, attempt
\* the loop variable, response what generate_content last gave or raised,
\* trace the provider calls made and the sleeps taken, in order, error the
\* message of the RuntimeError the invocation raised
NoResponse == [kind |-> "none", msg |-> <<>>]
NotCalled == [pc |-> "idle", max_tokens |-> 0, attempt |-> 0,
              response |-> NoResponse, trace |-> <<>>, error |-> <<>>]

\* no run has started
Idle ==
    /\ db = NoQuery
    /\ gemini = NotCalled
    /\ txn = [r \in Runs |-> {}]
    /\ writer = "none"
    /\ mw = [r \in Runs |-> "new"]
    /\ output_urls = [r \in Runs |-> {}]
    /\ lastreq = [r \in Runs |-> NoRequest]
    /\ pipe = [r \in Runs |-> "new"]
    /\ cur = [r \in Runs |-> NoItem]
    /\ rowcount = [r \in Runs |-> 0]
    /\ ret = [r \in Runs |-> FALSE]
    /\ call = [r \in Runs |-> NoCall]

\* run r1 crawls spider A; run r2 crawls the same spider or another one
Names == {f \in [Runs -> Spiders] : f["r1"] = "A"}

\* the spider of run r1 before start_requests is called, with default settings
NoPlan ==
    [sitemap_type |-> "monthly", window |-> <<<<2024, 1, 1>>, <<2024, 3, 1>>>>,
     scrape_mode |-> "full", cap |-> 0, npatterns |-> 1,
     pc |-> "start", date_range |-> <<>>, sitemap_dates |-> <<>>,
     i |-> 1, j |-> 1, sitemaps_processed |-> 0, emitted |-> <<>>,
     warned |-> FALSE, read_store |-> FALSE, store_fault |-> FALSE,
     open_handles |-> 0]

\* an empty database file, two runs not yet started
Fresh ==
    /\ articles = {}
    /\ Idle
    /\ plan = NoPlan

Init ==
    /\ Fresh
    /\ name \in Names
    /\ skip = [r \in Runs |-> FALSE]

-----------------------------------------------------------------------------
(* SQLitePipeline and NewsDatabase.insert_article *)

\* open_spider: self.db = NewsDatabase()
open_spider(r) ==
    /\ pipe[r] = "new"
    /\ pipe' = [pipe EXCEPT ![r] = "open"]
    /\ UNCHANGED <<articles, txn, writer, cur, rowcount, ret, call>>
    /\ UNCHANGED <<name, skip, plan, db, gemini>> /\ UNCHANGED mwVars

\* process_item up to the call of insert_article and its cursor = self.conn.cursor()
process_item(r, item) ==
    /\ pipe[r] = "open"
    /\ pipe' = [pipe EXCEPT ![r] = "called"]
    /\ cur' = [cur EXCEPT ![r] = item]
    /\ rowcount' = [rowcount EXCEPT ![r] = 0]
    /\ call' = [call EXCEPT ![r] = [NoCall EXCEPT !.absent = ~HasUrl(articles, item.url)]]
    /\ UNCHANGED <<articles, txn, writer, ret>>
    /\ UNCHANGED <<name, skip, plan, db, gemini>> /\ UNCHANGED mwVars

\* the result of insert_article when the try block raised
OnErrorRowcount(rc) == rc > 0

\* except Exception: print(...); return False
OnError(rc) == FALSE

\* insert_article returns v to process_item, which logs and returns the item;
\* the cursor goes out of scope.  "except Exception" lets no storage fault
\* out of insert_article.
Return(r, v, faulted, added) ==
    /\ pipe' = [pipe EXCEPT ![r] = "open"]
    /\ ret' = [ret EXCEPT ![r] = v]
    /\ call' = [call EXCEPT ![r].fault = faulted, ![r].delta = added]
    /\ rowcount' = [rowcount EXCEPT ![r] = 0]

\* cursor.execute("INSERT OR IGNORE ..."): python opens the transaction, the
\* statement takes the write lock of the database file and runs on what the
\* connection sees.  While another connection holds the write lock the statement
\* waits; it raises when the wait times out (ExecuteFault).
Execute(r) ==
    /\ pipe[r] = "called"
    /\ writer \in {"none", r}
    /\ LET new == InsertOrIgnore(View(r), Row(cur[r], name[r])) IN
        /\ txn' = [txn EXCEPT ![r] = new \ articles]
        /\ rowcount' = [rowcount EXCEPT ![r] = IF new = View(r) THEN 0 ELSE 1]
    /\ writer' = r
    /\ pipe' = [pipe EXCEPT ![r] = "executed"]
    /\ call' = [call EXCEPT ![r].attempted = TRUE]
    /\ UNCHANGED <<articles, cur, ret>>
    /\ UNCHANGED <<name, skip, plan, db, gemini>> /\ UNCHANGED mwVars

\* cursor.execute raises (database is locked, disk I/O error, ...): the
\* statement changed nothing; the except branch returns
ExecuteFault(r) ==
    /\ pipe[r] = "called"
    /\ Return(r, OnError(rowcount[r]), TRUE, {})
    /\ UNCHANGED <<articles, txn, writer, cur>>
    /\ UNCHANGED <<name, skip, plan, db, gemini>> /\ UNCHANGED mwVars

\* a result that does not look at the statement's outcome
CommitResultAlways(rc) == TRUE

\* return cursor.rowcount > 0
CommitResult(rc) == rc > 0

\* self.conn.commit(); return cursor.rowcount > 0
Commit(r) ==
    /\ pipe[r] = "executed"
    /\ articles' = articles \cup txn[r]
    /\ txn' = [txn EXCEPT ![r] = {}]
    /\ writer' = "none"
    /\ Return(r, CommitResult(rowcount[r]), FALSE, txn[r])
    /\ UNCHANGED cur
    /\ UNCHANGED <<name, skip, plan, db, gemini>> /\ UNCHANGED mwVars

\* a commit fault that insert_article lets out: process_item raises to the
\* engine instead of returning the item
CommitFaultRaises(r, keep) ==
    /\ pipe[r] = "executed"
    /\ txn' = [txn EXCEPT ![r] = IF keep THEN @ ELSE {}]
    /\ writer' = IF keep THEN writer ELSE "none"
    /\ pipe' = [pipe EXCEPT ![r] = "open"]
    /\ call' = [call EXCEPT ![r].fault = TRUE, ![r].raised = TRUE]
    /\ rowcount' = [rowcount EXCEPT ![r] = 0]
    /\ UNCHANGED <<articles, cur, ret>>
    /\ UNCHANGED <<name, skip, plan, db, gemini>> /\ UNCHANGED mwVars

\* self.conn.commit() raises.  With SQLITE_BUSY the transaction stays open
\* (keep = TRUE: the pending rows and the lock remain with the connection, since
\* the except branch does not roll back); with an I/O or disk-full error SQLite
\* rolls the transaction back itself (keep = FALSE).
CommitFault(r, keep) ==
    /\ pipe[r] = "executed"
    /\ txn' = [txn EXCEPT ![r] = IF keep THEN @ ELSE {}]
    /\ writer' = IF keep THEN writer ELSE "none"
    /\ Return(r, OnError(rowcount[r]), TRUE, {})
    /\ UNCHANGED <<articles, cur>>
    /\ UNCHANGED <<name, skip, plan, db, gemini>> /\ UNCHANGED mwVars

\* close_spider: self.db.close(); closing a connection discards its open transaction
close_spider(r) ==
    /\ pipe[r] = "open"
    /\ pipe' = [pipe EXCEPT ![r] = "closed"]
    /\ txn' = [txn EXCEPT ![r] = {}]
    /\ writer' = IF writer = r THEN "none" ELSE writer
    /\ UNCHANGED <<articles, cur, rowcount, ret, call>>
    /\ UNCHANGED <<name, skip, plan, db, gemini>> /\ UNCHANGED mwVars

\* The run ends without the engine reaching close_spider (the scrapy process
\* is killed, or shut down by force): SQLitePipeline has no other place that
\* calls self.db.close().  The process being gone, its pending transaction is
\* rolled back and its lock on the database file released.
terminate(r) ==
    /\ pipe[r] \in {"open", "called", "executed"}
    /\ pipe' = [pipe EXCEPT ![r] = "killed"]
    /\ txn' = [txn EXCEPT ![r] = {}]
    /\ writer' = IF writer = r THEN "none" ELSE writer
    /\ UNCHANGED <<articles, cur, rowcount, ret, call>>
    /\ UNCHANGED <<name, skip, plan, db, gemini>> /\ UNCHANGED mwVars

\* self.logger.debug: "Inserted article" if inserted else "Skipped duplicate
\* article", the one record process_item keeps of an item's outcome
LogOutcome(inserted) == IF inserted THEN "inserted" ELSE "skipped_duplicate"

-----------------------------------------------------------------------------
(* NewsScraperDownloaderMiddleware *)

\* a failed load that blocks every request
LoadFailedClosed == Urls

\* except Exception: warning; self.output_urls = []
LoadFailed == {}

\* spider_opened: with SKIP_OUTPUT_URLS, load the urls already stored for this
\* spider over a connection of its own (it reads the committed rows); without
\* it, output_urls stays the class attribute []
spider_opened(r) ==
    /\ mw[r] = "new"
    /\ IF skip[r]
       THEN \/ /\ output_urls' = [output_urls EXCEPT ![r] = get_unique_urls(articles, name[r])]
               /\ mw' = [mw EXCEPT ![r] = "loaded"]
            \/ /\ output_urls' = [output_urls EXCEPT ![r] = LoadFailed]
               /\ mw' = [mw EXCEPT ![r] = "failed"]
       ELSE /\ mw' = [mw EXCEPT ![r] = "off"]
            /\ UNCHANGED output_urls
    /\ UNCHANGED lastreq
    /\ UNCHANGED <<name, skip, plan, db, gemini>> /\ UNCHANGED storeVars

\* the membership test of process_request, made against the store
IgnoredByStore(r, u) == HasUrl(articles, u)

\* if request.url in self.output_urls: raise IgnoreRequest
Ignored(r, u) == u \in output_urls[r]

\* a process_request that reloads the list from the store before it tests
process_request_refresh(r, u) ==
    /\ mw[r] # "new"
    /\ output_urls' = [output_urls EXCEPT ![r] = get_unique_urls(articles, name[r])]
    /\ lastreq' = [lastreq EXCEPT ![r] =
            [url |-> u, ignored |-> u \in output_urls'[r],
             stored |-> u \in get_unique_urls(articles, name[r])]]
    /\ UNCHANGED mw
    /\ UNCHANGED <<name, skip, plan, db, gemini>> /\ UNCHANGED storeVars

\* process_request(request, spider): raises IgnoreRequest or returns None
process_request(r, u) ==
    /\ mw[r] # "new"
    /\ lastreq' = [lastreq EXCEPT ![r] =
            [url |-> u, ignored |-> Ignored(r, u),
             stored |-> u \in get_unique_urls(articles, name[r])]]
    /\ UNCHANGED <<mw, output_urls>>
    /\ UNCHANGED <<name, skip, plan, db, gemini>> /\ UNCHANGED storeVars

-----------------------------------------------------------------------------

\* the pipelines of the two runs against the shared database file
Next ==
    \E r \in Runs :
        \/ open_spider(r)
        \/ \E item \in Items : process_item(r, item)
        \/ Execute(r)
        \/ ExecuteFault(r)
        \/ Commit(r)
        \/ \E keep \in BOOLEAN : CommitFault(r, keep)
        \/ close_spider(r)

Spec == Init /\ [][Next]_vars

-----------------------------------------------------------------------------
(* The ways a run can end *)

\* the pipelines of the two runs; a run ends when the engine closes the spider
\* (it finished, or was cancelled), or when its process is terminated
LifecycleNext ==
    \E r \in Runs :
        \/ open_spider(r)
        \/ \E item \in Items : process_item(r, item)
        \/ Execute(r)
        \/ Commit(r)
        \/ close_spider(r)
        \/ terminate(r)

LifecycleSpec == Init /\ [][LifecycleNext]_vars

-----------------------------------------------------------------------------
(* The dedup filter of each run beside the pipelines *)

\* The filter of run r1 is the one observed; run r2 is a concurrent writer,
\* with or without the same spider name.
DedupInit ==
    /\ Fresh
    /\ name \in Names
    /\ skip \in {f \in [Runs -> BOOLEAN] : ~f["r2"]}

DedupNext ==
    \/ spider_opened("r1")
    \/ \E u \in Urls : process_request("r1", u)
    \/ \E r \in Runs :
        \/ open_spider(r)
        \/ \E item \in Items : process_item(r, item)
        \/ Execute(r)
        \/ Commit(r)
        \/ close_spider(r)

DedupSpec == DedupInit /\ [][DedupNext]_vars


-----------------------------------------------------------------------------
(* Calendar dates <<year, month, day>> and pandas' date_range *)

MaxPatterns == 2     \* sitemap_patterns a spider configures

IsLeap(y) == (y % 4 = 0 /\ y % 100 # 0) \/ y % 400 = 0

DaysInMonth(y, m) ==
    IF m = 2 THEN (IF IsLeap(y) THEN 29 ELSE 28)
    ELSE IF m \in {4, 6, 9, 11} THEN 30 ELSE 31

Min(a, b) == IF a <= b THEN a ELSE b

\* a < b for timestamps at midnight
DateLT(a, b) ==
    \/ a[1] < b[1]
    \/ a[1] = b[1] /\ a[2] < b[2]
    \/ a[1] = b[1] /\ a[2] = b[2] /\ a[3] < b[3]

DateMax(a, b) == IF DateLT(a, b) THEN b ELSE a

\* dt + pd.DateOffset(days=1)
AddDay(dt) ==
    IF dt[3] < DaysInMonth(dt[1], dt[2]) THEN <<dt[1], dt[2], dt[3] + 1>>
    ELSE IF dt[2] < 12 THEN <<dt[1], dt[2] + 1, 1>>
    ELSE <<dt[1] + 1, 1, 1>>

\* dt + pd.DateOffset(months=1): the day is cut to the length of the next month
AddMonth(dt) ==
    LET y == IF dt[2] = 12 THEN dt[1] + 1 ELSE dt[1]
        m == IF dt[2] = 12 THEN 1 ELSE dt[2] + 1
    IN  <<y, m, Min(dt[3], DaysInMonth(y, m))>>

\* dt + pd.DateOffset(years=1): 29 February becomes 28 February
AddYear(dt) == <<dt[1] + 1, dt[2], Min(dt[3], DaysInMonth(dt[1] + 1, dt[2]))>>

\* the sitemap_type values start_requests accepts
SupportedTypes == {"daily", "monthly", "yearly"}

\* dt + sitemap_frequency
AddFrequency(sitemap_type, dt) ==
    CASE sitemap_type = "daily"   -> AddDay(dt)
      [] sitemap_type = "monthly" -> AddMonth(dt)
      [] sitemap_type = "yearly"  -> AddYear(dt)

RECURSIVE date_range(_, _, _)
\* pd.date_range(start, end, freq=sitemap_frequency): start, then the offset
\* applied again and again while the date is not after end; empty when end < start
date_range(start, end, sitemap_type) ==
    IF DateLT(end, start) THEN <<>>
    ELSE <<start>> \o date_range(AddFrequency(sitemap_type, start), end, sitemap_type)

\* a reversal that keeps the order
Unreversed(seq) == seq

\* seq[::-1]
Reversed(seq) == [k \in 1..Len(seq) |-> seq[Len(seq) + 1 - k]]

-----------------------------------------------------------------------------
(* SitemapIndexSpider.start_requests of run r1 *)

SitemapLimit == 3

\* get_statistics()['by_spider']: SELECT spider_name, COUNT(*) ... GROUP BY spider_name
by_spider(rows) ==
    {<<sp, Cardinality({row \in rows : row.spider_name = sp})>> :
        sp \in {row.spider_name : row \in rows}}

\* get_articles returns a list of dicts, and a list has no attribute empty:
\* "if not articles.empty" raises AttributeError
ListHasEmpty == FALSE

\* the rows of a spider that carry a date_published
Dated(rows, spider_name) ==
    {row \in rows : row.spider_name = spider_name /\ row.date_published # None}

\* get_articles(spider_name, limit=1)[0]['date_published']: ORDER BY
\* date_published DESC puts the latest date first and NULL last
latest_date(rows, spider_name) ==
    IF Dated(rows, spider_name) = {} THEN None
    ELSE CHOOSE d \in {row.date_published : row \in Dated(rows, spider_name)} :
            \A row \in Dated(rows, spider_name) : ~DateLT(d, row.date_published)

\* the block "if scrape_mode == 'update'": what it makes of date_range[0], whether
\* the warning of the except branch is logged, and how many of the connections
\* it opened it leaves open.  fault: the first NewsDatabase() raised (the file
\* could not be opened), so that no connection was made.
Restrict(start, fault) ==
    IF fault
    THEN [start |-> start, warned |-> TRUE, open_handles |-> 0]
    ELSE IF \E e \in by_spider(articles) : e[1] = name["r1"] /\ e[2] > 0
    THEN IF ListHasEmpty
         THEN [start |-> IF latest_date(articles, name["r1"]) = None THEN start
                         ELSE DateMax(latest_date(articles, name["r1"]), start),
               warned |-> FALSE, open_handles |-> 0]
         ELSE [start |-> start, warned |-> TRUE, open_handles |-> 1]
    ELSE [start |-> start, warned |-> FALSE, open_handles |-> 0]

\* a start_requests that runs the update block before it looks at sitemap_type
BeginLate(fault) ==
    /\ plan.pc = "start"
    /\ LET update == plan.scrape_mode = "update"
           res == IF update THEN Restrict(plan.window[1], fault)
                  ELSE [start |-> plan.window[1], warned |-> FALSE, open_handles |-> 0]
       IN  /\ update \/ ~fault
           /\ IF plan.sitemap_type \notin SupportedTypes
              THEN plan' = [plan EXCEPT !.pc = "raised", !.read_store = update,
                                        !.warned = res.warned,
                                        !.open_handles = res.open_handles]
              ELSE LET dates == Reversed(date_range(res.start, plan.window[2],
                                                    plan.sitemap_type))
                   IN  plan' = [plan EXCEPT
                           !.date_range = <<res.start, plan.window[2]>>,
                           !.warned = res.warned,
                           !.read_store = update,
                           !.store_fault = fault,
                           !.open_handles = res.open_handles,
                           !.sitemap_dates = dates,
                           !.pc = IF dates = <<>> \/ plan.npatterns = 0
                                  THEN "done" ELSE "loop"]
    /\ UNCHANGED <<articles, txn, writer, name, skip, mw, output_urls, lastreq,
                   pipe, cur, rowcount, ret, call, db, gemini>>

\* start_requests from its call to the loop over sitemap_dates
Begin(fault) ==
    /\ plan.pc = "start"
    /\ IF plan.sitemap_type \notin SupportedTypes
       THEN plan' = [plan EXCEPT !.pc = "raised"]
       ELSE LET update == plan.scrape_mode = "update"
                res == IF update THEN Restrict(plan.window[1], fault)
                       ELSE [start |-> plan.window[1], warned |-> FALSE, open_handles |-> 0]
                dates == Reversed(date_range(res.start, plan.window[2], plan.sitemap_type))
            IN  /\ update \/ ~fault
                /\ plan' = [plan EXCEPT
                       !.date_range = <<res.start, plan.window[2]>>,
                       !.warned = res.warned,
                       !.read_store = update,
                       !.store_fault = fault,
                       !.open_handles = res.open_handles,
                       !.sitemap_dates = dates,
                       !.pc = IF dates = <<>> \/ plan.npatterns = 0 THEN "done" ELSE "loop"]
    /\ UNCHANGED <<articles, txn, writer, name, skip, mw, output_urls, lastreq,
                   pipe, cur, rowcount, ret, call, db, gemini>>

\* sitemap_pattern.format(year=..., month=..., day=...) with the formatters
\* strftime("%Y"), strftime("%m"), strftime("%d")
SitemapUrl(pattern, dt) ==
    [pattern |-> pattern, year |-> dt[1], month |-> dt[2], day |-> dt[3]]

\* a loop that counts a sitemap date once all its patterns have been yielded
YieldPerPartition ==
    /\ plan.pc = "loop"
    /\ LET dt == plan.sitemap_dates[plan.i]
           last == plan.j = plan.npatterns
           n == plan.sitemaps_processed + (IF last THEN 1 ELSE 0)
           limit_sitemaps == plan.cap > 0
       IN  plan' = [plan EXCEPT
               !.emitted = Append(@, SitemapUrl(plan.j, dt)),
               !.sitemaps_processed = n,
               !.j = IF last THEN 1 ELSE @ + 1,
               !.i = IF last THEN @ + 1 ELSE @,
               !.pc = IF limit_sitemaps /\ last /\ n >= SitemapLimit THEN "done"
                      ELSE IF last /\ plan.i = Len(plan.sitemap_dates) THEN "done"
                      ELSE "loop"]
    /\ UNCHANGED <<articles, txn, writer, name, skip, mw, output_urls, lastreq,
                   pipe, cur, rowcount, ret, call, db, gemini>>

\* one turn of the inner loop: yield Request(url, ...); count it; return when the
\* limit is set and hit; else go on with the next pattern or the next date
Yield ==
    /\ plan.pc = "loop"
    /\ LET dt == plan.sitemap_dates[plan.i]
           n == plan.sitemaps_processed + 1
           last == plan.j = plan.npatterns
           limit_sitemaps == plan.cap > 0
       IN  plan' = [plan EXCEPT
               !.emitted = Append(@, SitemapUrl(plan.j, dt)),
               !.sitemaps_processed = n,
               !.j = IF last THEN 1 ELSE @ + 1,
               !.i = IF last THEN @ + 1 ELSE @,
               !.pc = IF limit_sitemaps /\ n >= SitemapLimit THEN "done"
                      ELSE IF last /\ plan.i = Len(plan.sitemap_dates) THEN "done"
                      ELSE "loop"]
    /\ UNCHANGED <<articles, txn, writer, name, skip, mw, output_urls, lastreq,
                   pipe, cur, rowcount, ret, call, db, gemini>>

\* DATE_RANGE settings: windows of weeks for every sitemap_type, and windows of
\* years for the spiders whose sitemaps are not daily
WindowStarts(sitemap_type) ==
    {<<2024, 1, 1>>, <<2024, 1, 15>>, <<2024, 1, 31>>,
     <<2024, 2, 15>>, <<2024, 3, 1>>, <<2024, 3, 15>>}
    \cup (IF sitemap_type = "daily" THEN {} ELSE {<<2022, 3, 1>>, <<2023, 3, 1>>})
WindowEnds == {<<2024, 2, 15>>, <<2024, 3, 1>>}

\* CLOSESPIDER_ITEMCOUNT settings
Caps == {0, 10}

StoredRow(i, sp, d) == Row([url |-> <<i>>, date_published |-> d], sp)

\* contents of the database file when the run starts
PlannerStores ==
    {{},
     {StoredRow(1, "B", <<2024, 2, 15>>)},
     {StoredRow(1, "A", None)},
     {StoredRow(1, "A", <<2024, 2, 15>>)},
     {StoredRow(1, "A", <<2024, 2, 15>>), StoredRow(2, "A", <<2023, 12, 1>>)}}

PlannerInit ==
    /\ articles \in PlannerStores
    /\ Idle
    /\ name = [r \in Runs |-> IF r = "r1" THEN "A" ELSE "B"]
    /\ skip = [r \in Runs |-> FALSE]
    /\ \E t \in SupportedTypes \cup {"weekly"}, we \in WindowEnds,
          m \in {"full", "update"}, c \in Caps, np \in 1..MaxPatterns :
        \E ws \in WindowStarts(t) :
          plan = [NoPlan EXCEPT !.sitemap_type = t, !.window = <<ws, we>>,
                                !.scrape_mode = m, !.cap = c, !.npatterns = np]

PlannerNext ==
    \/ \E fault \in BOOLEAN : Begin(fault)
    \/ Yield

PlannerSpec == PlannerInit /\ [][PlannerNext]_vars

-----------------------------------------------------------------------------
(* NewsDatabase: the query functions *)

\* Text is a tuple of characters; the text columns of the model hold None or
\* a text of at least one character.  LIKE folds the case of ASCII letters.
Lower(c) == CASE c = "A" -> "a" [] c = "B" -> "b" [] OTHER -> c

\* text LIKE pattern: % stands for any run of characters, _ for any one
\* character, a letter for itself in either case
RECURSIVE LikeMatch(_, _)
LikeMatch(pattern, text) ==
    IF pattern = <<>> THEN text = <<>>
    ELSE IF Head(pattern) = "%"
    THEN \/ LikeMatch(Tail(pattern), text)
         \/ text # <<>> /\ LikeMatch(pattern, Tail(text))
    ELSE /\ text # <<>>
         /\ Head(pattern) = "_" \/ Lower(Head(pattern)) = Lower(Head(text))
         /\ LikeMatch(Tail(pattern), Tail(text))

\* column LIKE ?: NULL LIKE ? is NULL, which WHERE takes for false
Like(column, pattern) == column # None /\ LikeMatch(pattern, column)

\* search_param = f"%{search_query}%"
search_param(search_query) == <<"%">> \o search_query \o <<"%">>

\* a <= b on TEXT values (date_published is TEXT, ISO dates here as the tuples
\* of their numbers): the first place where they differ decides, and a text
\* is above its own prefixes
RECURSIVE TextLE(_, _)
TextLE(a, b) ==
    IF a = <<>> THEN TRUE
    ELSE IF b = <<>> THEN FALSE
    ELSE IF Head(a) = Head(b) THEN TextLE(Tail(a), Tail(b))
    ELSE Head(a) < Head(b)

\* a WHERE clause that takes a row when any one condition given holds
ArticlesWhereAny(row, f) ==
    \/ f.spider_name # "" /\ row.spider_name = f.spider_name
    \/ /\ f.search_query # None
       /\ \/ Like(row.title, search_param(f.search_query))
          \/ Like(row.description, search_param(f.search_query))
          \/ Like(row.article_text, search_param(f.search_query))
    \/ /\ f.start_date # None /\ row.date_published # None
       /\ TextLE(f.start_date, row.date_published)
    \/ /\ f.end_date # None /\ row.date_published # None
       /\ TextLE(row.date_published, f.end_date)
    \/ f = NoFilter

\* the WHERE clause get_articles builds: "WHERE 1=1", and one AND per argument
\* that is truthy (neither None nor empty); a comparison with NULL is not true
ArticlesWhere(row, f) ==
    /\ f.spider_name # "" => row.spider_name = f.spider_name
    /\ f.search_query # None =>
          \/ Like(row.title, search_param(f.search_query))
          \/ Like(row.description, search_param(f.search_query))
          \/ Like(row.article_text, search_param(f.search_query))
    /\ f.start_date # None =>
          row.date_published # None /\ TextLE(f.start_date, row.date_published)
    /\ f.end_date # None =>
          row.date_published # None /\ TextLE(row.date_published, f.end_date)

\* a count that leaves the search out
CountWhereNoSearch(row, f) ==
    /\ f.spider_name # "" => row.spider_name = f.spider_name
    /\ f.start_date # None =>
          row.date_published # None /\ TextLE(f.start_date, row.date_published)
    /\ f.end_date # None =>
          row.date_published # None /\ TextLE(row.date_published, f.end_date)

\* the WHERE clause get_article_count builds, in its own copy of the code
CountWhere(row, f) ==
    /\ f.spider_name # "" => row.spider_name = f.spider_name
    /\ f.search_query # None =>
          \/ Like(row.title, search_param(f.search_query))
          \/ Like(row.description, search_param(f.search_query))
          \/ Like(row.article_text, search_param(f.search_query))
    /\ f.start_date # None =>
          row.date_published # None /\ TextLE(f.start_date, row.date_published)
    /\ f.end_date # None =>
          row.date_published # None /\ TextLE(row.date_published, f.end_date)

\* ORDER BY on date_published: a <= b, NULL being below every value
DateOrderLE(a, b) == a = None \/ (b # None /\ TextLE(a, b))

\* ORDER BY date_published DESC: every order of the rows in which no row comes
\* before one of a higher date_published; rows of equal date_published come in
\* an order SQLite is free to choose
RECURSIVE OrderByDateDesc(_)
OrderByDateDesc(rows) ==
    IF rows = {} THEN {<<>>}
    ELSE UNION {{<<x>> \o rest : rest \in OrderByDateDesc(rows \ {x})} :
                  x \in {y \in rows : \A z \in rows :
                            DateOrderLE(z.date_published, y.date_published)}}

\* LIMIT ? OFFSET ?
LimitOffset(list, limit, offset) ==
    SubSeq(list, offset + 1, Min(Len(list), offset + limit))

\* get_articles(spider_name, search_query, start_date, end_date, limit, offset):
\* the lists it can return
get_articles(rows, f, limit, offset) ==
    {LimitOffset(list, limit, offset) :
        list \in OrderByDateDesc({row \in rows : ArticlesWhere(row, f)})}

\* get_article_count(spider_name, search_query, start_date, end_date)
get_article_count(rows, f) == Cardinality({row \in rows : CountWhere(row, f)})

\* get_statistics(): total_articles and by_spider (by_day and latest_scrape read
\* the clock and created_at, which the rows of the model do not carry)
get_statistics(rows) ==
    [total_articles |-> Cardinality(rows), by_spider |-> by_spider(rows)]

\* limit=1000000 ("Get all matching articles")
ExportLimit == 1000000

\* fieldnames=articles[0].keys(): the columns of SELECT *, those carried here
Columns == <<"url", "title", "description", "article_text", "date_published",
             "spider_name">>

\* an export that writes the header whatever the list
WriteCsvAlways(list) == [exists |-> TRUE, header |-> Columns, data |-> list]

\* "if articles:" open(filepath, 'w'), writeheader(), writerows(articles);
\* with an empty list the file is not opened
WriteCsv(list) ==
    IF list # <<>> THEN [exists |-> TRUE, header |-> Columns, data |-> list]
    ELSE NoFile

\* db.get_articles(...): one of the lists the query can return
Query(f, limit, offset) ==
    /\ \E list \in get_articles(articles, f, limit, offset) :
          db' = [db EXCEPT !.op = "get_articles", !.f = f, !.limit = limit,
                           !.offset = offset, !.result = list, !.file = NoFile]
    /\ UNCHANGED <<articles, txn, writer, name, skip, mw, output_urls, lastreq,
                   pipe, cur, rowcount, ret, call, plan, gemini>>

\* db.get_article_count(...)
Count(f) ==
    /\ db' = [db EXCEPT !.op = "get_article_count", !.f = f, !.limit = 0,
                        !.offset = 0, !.result = get_article_count(articles, f),
                        !.file = NoFile]
    /\ UNCHANGED <<articles, txn, writer, name, skip, mw, output_urls, lastreq,
                   pipe, cur, rowcount, ret, call, plan, gemini>>

\* db.get_statistics()
Statistics ==
    /\ db' = [db EXCEPT !.op = "get_statistics", !.f = NoFilter, !.limit = 0,
                        !.offset = 0, !.result = get_statistics(articles),
                        !.file = NoFile]
    /\ UNCHANGED <<articles, txn, writer, name, skip, mw, output_urls, lastreq,
                   pipe, cur, rowcount, ret, call, plan, gemini>>

\* db.export_to_csv(filepath, ...) to a filepath where no file is yet (the
\* dashboard names the file by the time of the export): get_articles with
\* limit=1000000, the file written if the list is not empty, return len(articles)
Export(f) ==
    /\ \E list \in get_articles(articles, f, ExportLimit, 0) :
          db' = [db EXCEPT !.op = "export_to_csv", !.f = f, !.limit = ExportLimit,
                           !.offset = 0, !.result = Len(list),
                           !.file = WriteCsv(list)]
    /\ UNCHANGED <<articles, txn, writer, name, skip, mw, output_urls, lastreq,
                   pipe, cur, rowcount, ret, call, plan, gemini>>

\* db.insert_article(article, spider_name) by a process that makes its calls
\* one after another on its one connection, the only one open on the file,
\* and meets no storage fault: the statement does not wait and is committed
\* at once.  db.urls, db.sources and db.calls remember the calls.  A row the
\* statement creates gets created_at from DEFAULT CURRENT_TIMESTAMP, the
\* clock being the number of the call; a row that is gone takes its
\* created_at with it.
insert_article(article, spider_name) ==
    /\ db.calls < MaxCalls
    /\ LET row == Row(article, spider_name)
           new == InsertOrIgnore(articles, row)
           kept == {s \in db.created_at : \E x \in new \cap articles : x.url = s[1]}
           made == {<<x.url, db.calls + 1>> : x \in new \ articles}
       IN  /\ articles' = new
           /\ db' = [db EXCEPT
                  !.op = "insert_article", !.f = NoFilter, !.limit = 0,
                  !.offset = 0, !.file = NoFile,
                  !.result = CommitResult(IF new = articles THEN 0 ELSE 1),
                  !.urls = IF row.url = None THEN @ ELSE @ \cup {row.url},
                  !.sources = @ \cup {spider_name},
                  !.calls = @ + 1,
                  !.row = row,
                  !.created_at = kept \cup made]
    /\ UNCHANGED <<txn, writer, name, skip, mw, output_urls, lastreq,
                   pipe, cur, rowcount, ret, call, plan, gemini>>

\* What an extractor makes of page i: the page's content as it was at a first
\* and at a later visit (version 1, 2).  Keys an article lacks are left out.
\* date_published is ISO text: a date, <<year, month, day>>, or a date with
\* the time of day after it, <<year, month, day, hour>>.
Article(i, version) ==
    CASE i % 3 = 1 /\ version = 1 ->
            [url |-> <<i>>, date_published |-> <<2024, 1, 15>>, title |-> <<"A", "b">>]
      [] i % 3 = 1 /\ version = 2 ->
            [url |-> <<i>>, description |-> <<"b", "a">>]
      [] i % 3 = 2 /\ version = 1 ->
            [url |-> <<i>>, date_published |-> <<2024, 1, 31>>, article_text |-> <<"a", "B">>]
      [] i % 3 = 2 /\ version = 2 ->
            [url |-> <<i>>, date_published |-> <<2024, 1, 15, 10>>, title |-> <<"b">>,
             description |-> <<"a">>]
      [] i % 3 = 0 /\ version = 1 ->
            [url |-> <<i>>]
      [] i % 3 = 0 /\ version = 2 ->
            [url |-> <<i>>, date_published |-> <<2024, 2, 15>>, title |-> <<"a", "b">>]

Versions == {1, 2}

\* the articles handed to insert_article: those of the pages, and one
\* without url
Articles ==
    {Article(i, v) : i \in 1..MaxUrls, v \in Versions}
    \cup {[date_published |-> <<2024, 1, 15>>, title |-> <<"a">>]}

\* the spider that stored page i in the given version
SourceOf(i, version) == IF (i + version) % 2 = 0 THEN "A" ELSE "B"

\* contents of the database file when the dashboard queries it: of each page
\* no row, or the row of one of its versions
QueryStores ==
    {{Row(Article(i, pick[i]), SourceOf(i, pick[i])) : i \in {j \in 1..MaxUrls : pick[j] # 0}} :
        pick \in [1..MaxUrls -> Versions \cup {0}]}

\* the arguments of the queries
Filters ==
    [spider_name : {"", "A", "B"},
     search_query : {None, <<"b">>, <<"a", "B">>},
     start_date : {None, <<2024, 1, 15>>},
     end_date : {None, <<2024, 1, 15>>}]
Limits == {1, ExportLimit}
Offsets == {0, 1}

QueryInit ==
    /\ articles \in QueryStores
    /\ Idle
    /\ name = [r \in Runs |-> IF r = "r1" THEN "A" ELSE "B"]
    /\ skip = [r \in Runs |-> FALSE]
    /\ plan = NoPlan

QueryNext ==
    \/ \E f \in Filters, limit \in Limits, offset \in Offsets : Query(f, limit, offset)
    \/ \E f \in Filters : Count(f)
    \/ \E f \in Filters : Export(f)
    \/ Statistics

QuerySpec == QueryInit /\ [][QueryNext]_vars

\* a process that fills an empty database file and asks for its counts
StatsInit ==
    /\ Fresh
    /\ name = [r \in Runs |-> IF r = "r1" THEN "A" ELSE "B"]
    /\ skip = [r \in Runs |-> FALSE]

StatsNext ==
    \/ \E article \in Articles, spider_name \in Spiders :
          insert_article(article, spider_name)
    \/ \E spider_name \in Spiders \cup {""} :
          Count([NoFilter EXCEPT !.spider_name = spider_name])
    \/ Statistics

StatsSpec == StatsInit /\ [][StatsNext]_vars

-----------------------------------------------------------------------------
(* gemini_client._call_gemini *)

max_retries == 3
retry_delay == 12

\* time.sleep(6.5) after generate_content returned, in tenths of a second
CallSpacing == 65

\* A message is the tuple of its words.  What model.generate_content can do:
\* return a response whose .text is there (text), one blocked with
\* prompt_feedback (blocked), one with text only in candidates[0].content.parts
\* (parts), one whose candidate has only a finish_reason (finish_reason), one
\* with nothing (empty); or raise, with a message.
Messages ==
    {<<"429", "Resource", "exhausted">>, <<"Quota", "exceeded">>,
     <<"You", "exceeded", "your", "current", "quota">>,
     <<"500", "Internal", "error">>, <<"Deadline", "exceeded">>}
Responses ==
    {[kind |-> k, msg |-> <<>>] :
        k \in {"text", "blocked", "parts", "finish_reason", "empty"}}
    \cup {[kind |-> "raise", msg |-> m] : m \in Messages}

\* str.lower() of a word
LowerWord(w) == IF w = "Quota" THEN "quota" ELSE w

\* a test that takes every failure for a rate limit
IsRateLimitAny(error_msg) == TRUE

\* "429" in error_msg or "quota" in error_msg.lower()
IsRateLimit(error_msg) ==
    \E k \in 1..Len(error_msg) :
        error_msg[k] = "429" \/ LowerWord(error_msg[k]) = "quota"

\* str(e) of the exception the try block ends with: the provider's own, or
\* one of the RuntimeErrors raised on a response without text
error_msg(response) ==
    CASE response.kind = "raise" -> response.msg
      [] response.kind = "blocked" ->
            <<"Content", "blocked", "by", "safety", "filters">>
      [] response.kind = "finish_reason" -> <<"Response", "generation", "stopped">>
      [] response.kind = "empty" ->
            <<"No", "valid", "response", "text", "returned", "from", "Gemini", "API">>

Call(response) == [event |-> "call", response |-> response, tenths |-> 0]
Sleep(tenths) == [event |-> "sleep", response |-> NoResponse, tenths |-> tenths]

\* what the rest of the file leaves alone
geminiOthers == <<articles, txn, writer, name, skip, mw, output_urls, lastreq,
                  pipe, cur, rowcount, ret, call, plan, db>>

\* _call_gemini(prompt, temperature, max_tokens) is called; api_key: whether
\* GEMINI_API_KEY is set in the calling process
Invoke(api_key, max_tokens) ==
    /\ gemini.pc \in {"idle", "returned", "raised"}
    /\ gemini' = IF api_key
                 THEN [NotCalled EXCEPT !.pc = "try", !.max_tokens = max_tokens]
                 ELSE [NotCalled EXCEPT !.pc = "raised", !.max_tokens = max_tokens,
                          !.error = <<"GEMINI_API_KEY", "not", "set">>]
    /\ UNCHANGED geminiOthers

\* response = model.generate_content(prompt, generation_config): it returns
\* or raises
Generate(response) ==
    /\ gemini.pc = "try"
    /\ gemini' = [gemini EXCEPT !.pc = "got", !.response = response,
                                !.trace = Append(@, Call(response))]
    /\ UNCHANGED geminiOthers

\* the rest of the loop body: after a response, sleep 6.5 s and return its
\* text or raise a RuntimeError; in "except Exception", on a rate limit sleep
\* retry_delay * (attempt + 1) and continue if attempts are left, else raise;
\* on any other error raise
Handle ==
    /\ gemini.pc = "got"
    /\ LET r == gemini.response
           slept == IF r.kind = "raise" THEN gemini.trace
                    ELSE Append(gemini.trace, Sleep(CallSpacing))
       IN  gemini' =
             IF r.kind \in {"text", "parts"}
             THEN [gemini EXCEPT !.pc = "returned", !.trace = slept]
             ELSE IF IsRateLimit(error_msg(r))
             THEN IF gemini.attempt < max_retries - 1
                  THEN [gemini EXCEPT
                          !.pc = "try", !.attempt = @ + 1,
                          !.trace = Append(slept,
                                       Sleep(retry_delay * (gemini.attempt + 1) * 10))]
                  ELSE [gemini EXCEPT !.pc = "raised", !.trace = slept,
                          !.error = <<"Rate", "limit", "exceeded">>]
             ELSE [gemini EXCEPT !.pc = "raised", !.trace = slept,
                     !.error = <<"Gemini", "API", "call", "failed">> \o error_msg(r)]
    /\ UNCHANGED geminiOthers

\* max_tokens of the callers in gemini_client.py
MaxTokens == {200, 400, 500, 600}

GeminiInit == Fresh /\ name \in Names /\ skip = [r \in Runs |-> FALSE]

GeminiNext ==
    \/ \E api_key \in BOOLEAN, max_tokens \in MaxTokens : Invoke(api_key, max_tokens)
    \/ \E response \in Responses : Generate(response)
    \/ Handle

\* The function runs its statements one after the other, and a provider call
\* that was made returns or raises: a step that can be taken is taken.
GeminiSpec ==
    /\ GeminiInit /\ [][GeminiNext]_vars
    /\ WF_vars(\E response \in Responses : Generate(response))
    /\ WF_vars(Handle)

-----------------------------------------------------------------------------
(* Properties of the store and the pipeline, checked under Spec *)

\* an insert_article call of run r has returned
Returned(r) == pipe[r] \in {"open", "closed"} /\ cur[r] # NoItem

RowsWithUrl(u) == {row \in articles : row.url = u}

\* C1: after any sequence of insert_article calls the table holds at most one
\* row per url, and a call whose url was already stored when it began reports
\* inserted = false.
C1_OneRowPerUrl ==
    /\ \A x, y \in articles : x.url = y.url => x = y
    /\ \A r \in Runs : Returned(r) /\ ~call[r].absent => ret[r] = FALSE

\* a call for a url that another spider had stored has returned
C1_Witness ==
    \E r \in Runs :
        /\ Returned(r) /\ ~call[r].absent /\ call[r].attempted /\ ~call[r].fault
        /\ \E row \in articles : row.url = cur[r].url /\ row.spider_name # name[r]

\* C2: insert_article returns true only if that call created a new row: a true
\* result means the call added exactly one row, which carries the record's url,
\* and a false result means the call added no row.
C2_TrueIffNewRow ==
    \A r \in Runs : Returned(r) =>
        /\ ret[r] => /\ Cardinality(call[r].delta) = 1
                     /\ \A row \in call[r].delta : row.url = cur[r].url
        /\ ~ret[r] => call[r].delta = {}

\* C3: a record without url is rejected with an InvalidRecord error and no
\* write is attempted.
C3_MissingUrlRaises ==
    \A r \in Runs : Returned(r) /\ cur[r].url = None =>
        call[r].raised /\ ~call[r].attempted

\* C4: when the storage engine faults during an insert, insert_article does not
\* raise, reports inserted = false, and the call leaves the committed rows as
\* they were.
C4_FaultReportsFalse ==
    \A r \in Runs : Returned(r) /\ call[r].fault =>
        ~call[r].raised /\ ret[r] = FALSE /\ call[r].delta = {}

\* a commit that faulted after the statement had inserted a row has returned
C4_Witness ==
    \E r \in Runs :
        /\ Returned(r) /\ call[r].fault /\ call[r].attempted
        /\ call[r].absent /\ cur[r].url # None

\* two inserts of one url, both begun while the url was not stored
Raced(r, q) ==
    /\ r # q /\ Returned(r) /\ Returned(q)
    /\ cur[r].url = cur[q].url /\ cur[r].url # None
    /\ call[r].absent /\ call[q].absent

\* C5: when two inserts of the same not-yet-stored url run concurrently on two
\* connections, at most one of them reports inserted = true and the table never
\* holds two rows for the url; when neither call hit a storage fault exactly one
\* row for the url exists afterwards.
C5_RaceAtMostOneWins ==
    \A r, q \in Runs : Raced(r, q) =>
        /\ ~(ret[r] /\ ret[q])
        /\ Cardinality(RowsWithUrl(cur[r].url)) <= 1
        /\ ~call[r].fault /\ ~call[q].fault =>
              Cardinality(RowsWithUrl(cur[r].url)) = 1

\* both racing calls ran their statement and committed; one won
C5_Witness ==
    \E r, q \in Runs :
        /\ Raced(r, q)
        /\ ~call[r].fault /\ ~call[q].fault
        /\ ret[r] /\ ~ret[q]

-----------------------------------------------------------------------------
(* Properties of the dedup filter, checked under DedupSpec *)

\* C6: process_request suppresses every request whose url is in the list loaded
\* at run start, on every attempt, and lets every other request proceed; what it
\* suppresses was stored for the run's spider.
C6_SuppressIffInSnapshot ==
    \A r \in Runs : lastreq[r].url # None =>
        /\ lastreq[r].ignored <=> lastreq[r].url \in output_urls[r]
        /\ lastreq[r].ignored => lastreq[r].stored

\* a request for a url of the loaded list was suppressed
C6_Witness ==
    \E r \in Runs : mw[r] = "loaded" /\ lastreq[r].ignored

\* C7: when loading the list fails at run start the run goes on: the list is
\* empty, every request can be made and every request made is allowed.
C7_FailOpen ==
    \A r \in Runs : mw[r] = "failed" =>
        /\ output_urls[r] = {}
        /\ \A u \in Urls : ENABLED process_request(r, u)
        /\ ~lastreq[r].ignored

\* after a failed load, a request for a url stored for the spider was allowed
C7_Witness ==
    \E r \in Runs :
        /\ mw[r] = "failed"
        /\ lastreq[r].url # None /\ lastreq[r].stored /\ ~lastreq[r].ignored

\* C8: the list is fixed for the whole run: once loaded no step changes it, and
\* a request for a url that is not in it is allowed, also when the url has been
\* stored since.
C8_SnapshotFixed ==
    [][\A r \in Runs : mw[r] # "new" =>
          /\ output_urls'[r] = output_urls[r]
          /\ (lastreq'[r] # lastreq[r] /\ lastreq'[r].url \notin output_urls[r])
                => ~lastreq'[r].ignored]_vars

\* with the list loaded, a request for a url stored after the load was allowed
C8_Witness ==
    \E r \in Runs :
        /\ mw[r] = "loaded"
        /\ lastreq[r].stored /\ ~lastreq[r].ignored
        /\ lastreq[r].url \notin output_urls[r]


-----------------------------------------------------------------------------
(* Properties of start_requests, checked under PlannerSpec *)

\* the partition a target belongs to: its day, month or year, by sitemap_type
PartitionOf(t) ==
    CASE plan.sitemap_type = "daily"   -> <<t.year, t.month, t.day>>
      [] plan.sitemap_type = "monthly" -> <<t.year, t.month, 1>>
      [] plan.sitemap_type = "yearly"  -> <<t.year, 1, 1>>

\* the targets emitted for the first sitemap pattern, as <<year, month>>
MonthsEmitted ==
    LET first == SelectSeq(plan.emitted, LAMBDA t : t.pattern = 1)
    IN  [k \in 1..Len(first) |-> <<first[k].year, first[k].month>>]

\* C9: start_requests emits its targets most recent partition first: from one
\* target to the next the partition is the same one (the next sitemap pattern
\* of that partition) or a strictly earlier one; for window
\* [2024-01-01, 2024-03-01], monthly, it emits March, then February, then January.
C9_DescendingPartitions ==
    /\ \A k \in 1..(Len(plan.emitted) - 1) :
          LET a == plan.emitted[k]
              b == plan.emitted[k + 1]
          IN  \/ DateLT(PartitionOf(b), PartitionOf(a))
              \/ PartitionOf(a) = PartitionOf(b) /\ a.pattern < b.pattern
    /\ ( /\ plan.pc = "done" /\ plan.sitemap_type = "monthly" /\ plan.cap = 0
         /\ plan.window = <<(<<2024, 1, 1>>), (<<2024, 3, 1>>)>> )
       => MonthsEmitted = <<(<<2024, 3>>), (<<2024, 2>>), (<<2024, 1>>)>>

\* the monthly run over [2024-01-01, 2024-03-01] has emitted its three targets
C9_Witness ==
    /\ plan.pc = "done" /\ plan.sitemap_type = "monthly" /\ plan.cap = 0
    /\ plan.window = <<(<<2024, 1, 1>>), (<<2024, 3, 1>>)>>
    /\ plan.npatterns = 1 /\ Len(plan.emitted) = 3

\* C10: in update mode the effective start is max(window.start, latest
\* date_published stored for this source) when the source has stored records,
\* and window.start when it has none (the lookup itself meeting no storage fault).
C10_ResumeClamp ==
    ( /\ plan.pc \in {"loop", "done"} /\ plan.date_range # <<>>
      /\ plan.scrape_mode = "update" /\ ~plan.store_fault )
    => plan.date_range[1] =
          IF latest_date(articles, name["r1"]) = None THEN plan.window[1]
          ELSE DateMax(plan.window[1], latest_date(articles, name["r1"]))

\* start_requests has run to its end without raising
Finished == plan.pc = "done" /\ plan.sitemap_type \in SupportedTypes

\* C11: for every supported sitemap_type and every window, also one whose
\* effective start equals its end or lies after it, start_requests emits at
\* least one sitemap target.
C11_AtLeastOneTarget ==
    Finished => Len(plan.emitted) >= 1

\* the date a target was formatted from
TargetDate(t) == <<t.year, t.month, t.day>>

\* the sitemap dates of which start_requests has emitted a target
DatesEmitted == {TargetDate(plan.emitted[k]) : k \in 1..Len(plan.emitted)}

\* the targets of a sitemap date: one per sitemap pattern
TargetsOf(dt) == {SitemapUrl(j, dt) : j \in 1..plan.npatterns}

\* the first n sitemap dates (all of them when there are fewer)
FirstDates(n) ==
    {plan.sitemap_dates[k] : k \in 1..Min(n, Len(plan.sitemap_dates))}

\* the sequence of all targets: sitemap dates in order, and per date the
\* patterns in order
AllTargets ==
    [k \in 1..(Len(plan.sitemap_dates) * plan.npatterns) |->
        SitemapUrl(((k - 1) % plan.npatterns) + 1,
                   plan.sitemap_dates[((k - 1) \div plan.npatterns) + 1])]

\* C12 as stated: with the item-count cap above 0, start_requests stops after
\* emitting 3 partitions, the 3 most recent, whatever the number of sitemap
\* patterns (or all partitions when there are fewer than 3); with the cap at 0
\* it emits every partition.
C12_ThreePartitions ==
    Finished =>
        {plan.emitted[k] : k \in 1..Len(plan.emitted)} =
            UNION {TargetsOf(dt) :
                     dt \in IF plan.cap > 0 THEN FirstDates(3)
                            ELSE FirstDates(Len(plan.sitemap_dates))}

\* C12 amended: with the item-count cap above 0, start_requests stops after
\* emitting 3 targets, counted across sitemap patterns: the first 3 of the
\* sequence that walks the partitions most recent first and the patterns
\* within each (all of them when there are fewer than 3); with the cap at 0
\* it emits every target of that sequence.
C12_ThreeTargets ==
    Finished =>
        plan.emitted =
            IF plan.cap > 0 THEN SubSeq(AllTargets, 1, Min(3, Len(AllTargets)))
            ELSE AllTargets

\* a capped run of a spider with two patterns over three partitions has
\* stopped inside the second partition
C12_Witness ==
    /\ Finished /\ plan.cap > 0 /\ plan.npatterns = 2
    /\ Len(plan.sitemap_dates) >= 3
    /\ Len(plan.emitted) = 3 /\ Cardinality(DatesEmitted) = 2

\* C13: with a sitemap_type other than daily, monthly or yearly, start_requests
\* raises NotImplementedError before it emits a target and before it reads the
\* store, in full mode and in update mode.
C13_RaisesFirst ==
    (plan.sitemap_type \notin SupportedTypes /\ plan.pc # "start") =>
        /\ plan.pc = "raised"
        /\ plan.emitted = <<>>
        /\ ~plan.read_store /\ plan.open_handles = 0 /\ ~plan.warned

\* an update-mode run with an unsupported sitemap_type, over a store that holds
\* rows of its spider, has raised
C13_Witness ==
    /\ plan.pc = "raised" /\ plan.scrape_mode = "update"
    /\ \E row \in articles : row.spider_name = name["r1"]

-----------------------------------------------------------------------------
(* Properties of the pipeline's lifecycle and bookkeeping *)

\* the run of r is over
RunEnded(r) == pipe[r] \in {"closed", "killed"}

\* the connection open_spider made has been closed by self.db.close()
HandleClosed(r) == pipe[r] = "closed"

\* C14: the pipeline opens one store handle when the run starts, and on every
\* way the run can end (finish, cancellation, abnormal termination) that handle
\* has been closed: no run ends with its pipeline handle still open.
C14_HandleClosedAtEnd ==
    \A r \in Runs : RunEnded(r) => HandleClosed(r)

\* what became of the record of the last process_item call
Outcome(r) ==
    IF cur[r].url = None THEN "rejected_invalid"
    ELSE IF call[r].delta # {} THEN "inserted"
    ELSE "skipped_duplicate"

\* C15: every record processed is counted once, under the outcome it had:
\* inserted for a new row, skipped_duplicate for a url already stored,
\* rejected_invalid for a record without url.
C15_CountedByOutcome ==
    \A r \in Runs : Returned(r) => LogOutcome(ret[r]) = Outcome(r)

-----------------------------------------------------------------------------
(* Properties of the query functions, checked under QuerySpec and StatsSpec *)

\* the query text occurs in the text, letters compared without regard to case
Contains(text, query) ==
    /\ text # None
    /\ \E i \in 1..(Len(text) - Len(query) + 1) :
          \A j \in 1..Len(query) : Lower(text[i + j - 1]) = Lower(query[j])

\* the row passes every filter that was supplied
Satisfies(row, f) ==
    /\ f.spider_name # "" => row.spider_name = f.spider_name
    /\ f.search_query # None =>
          \/ Contains(row.title, f.search_query)
          \/ Contains(row.description, f.search_query)
          \/ Contains(row.article_text, f.search_query)
    /\ f.start_date # None =>
          row.date_published # None /\ ~DateLT(row.date_published, f.start_date)
    /\ f.end_date # None =>
          row.date_published # None /\ ~DateLT(f.end_date, row.date_published)

C17_CountEqualsRows ==
    db.op = "get_article_count" =>
        \A limit \in {Cardinality(articles), Cardinality(articles) + 1, ExportLimit} :
            \A list \in get_articles(articles, db.f, limit, 0) :
                db.result = Len(list)

\* a count by text and dates that takes some of the stored rows and not all
C17_Witness ==
    /\ db.op = "get_article_count"
    /\ db.f.search_query # None /\ db.f.start_date # None /\ db.f.end_date # None
    /\ db.result >= 1 /\ db.result < Cardinality(articles)

\* C18: after inserts for the single source A, of k distinct urls and any
\* number of repeated inserts of these urls, get_statistics() reports
\* total_articles = k and get_article_count(spider_name = A) returns k.
C18_TotalIsDistinctUrls ==
    db.sources \subseteq {"A"} =>
        /\ db.op = "get_statistics" =>
              db.result.total_articles = Cardinality(db.urls)
        /\ (db.op = "get_article_count" /\ db.f.spider_name = "A") =>
              db.result = Cardinality(db.urls)

\* two distinct urls and two repeated inserts, all for A: the total is 2
C18_Witness ==
    /\ db.op = "get_statistics" /\ db.sources = {"A"}
    /\ Cardinality(db.urls) = 2 /\ db.calls = 4
    /\ db.result.total_articles = 2

\* C19 as stated: an export without filters of a store of N records, N = 0
\* included, leaves a file of one header row and N data rows, and returns N.
C19_ExportHeaderAndRows ==
    (db.op = "export_to_csv" /\ db.f = NoFilter) =>
        /\ db.file.exists /\ db.file.header = Columns
        /\ Len(db.file.data) = Cardinality(articles)
        /\ db.result = Cardinality(articles)

\* C19 amended: an export without filters of a store of N records returns N;
\* for N >= 1 it leaves a file of one header row and N data rows, the stored
\* records; for N = 0 it writes no file at all.
C19_ExportNonEmpty ==
    (db.op = "export_to_csv" /\ db.f = NoFilter) =>
        /\ db.result = Cardinality(articles)
        /\ IF articles # {}
           THEN /\ db.file.exists /\ db.file.header = Columns
                /\ Len(db.file.data) = Cardinality(articles)
                /\ {db.file.data[k] : k \in 1..Len(db.file.data)} = articles
           ELSE ~db.file.exists

\* a store of two records has been exported without filters
C19_Witness ==
    /\ db.op = "export_to_csv" /\ db.f = NoFilter
    /\ Cardinality(articles) = 2 /\ db.result = 2
    /\ db.file.exists /\ Len(db.file.data) = 2

-----------------------------------------------------------------------------
(* Properties of _call_gemini, checked under GeminiSpec *)

\* the places of the trace where the provider was called
CallsAt == {k \in 1..Len(gemini.trace) : gemini.trace[k].event = "call"}

\* the call at place k of the trace failed with a rate limit
RateLimited(k) ==
    LET r == gemini.trace[k].response
    IN  r.kind = "raise"
        /\ \E w \in 1..Len(r.msg) : r.msg[w] \in {"429", "quota", "Quota"}

\* the call at place k failed, and not with a rate limit
FailedOtherwise(k) ==
    gemini.trace[k].response.kind \notin {"text", "parts"} /\ ~RateLimited(k)

\* C20 (what holds at every point of an invocation): at most 3 provider calls;
\* a further call is made only after a call that failed with a rate limit, and
\* after a sleep since that call; once the invocation has ended, a last call
\* that gave text means it returned, any failure of the last call means it
\* raised, a rate limit ends it only as the third call, and an invocation
\* without api key raised without calling.
C20_Bounded ==
    /\ Cardinality(CallsAt) <= 3
    /\ \A k \in CallsAt : \A n \in CallsAt : k < n =>
          /\ RateLimited(k)
          /\ \E m \in (k + 1)..(n - 1) :
                gemini.trace[m].event = "sleep" /\ gemini.trace[m].tenths > 0
    /\ gemini.pc \in {"returned", "raised"} =>
          \A k \in CallsAt : (\A n \in CallsAt : n <= k) =>
              /\ gemini.pc = "returned" <=>
                    gemini.trace[k].response.kind \in {"text", "parts"}
              /\ RateLimited(k) => Cardinality(CallsAt) = 3
    /\ gemini.pc = "returned" => CallsAt # {}
    /\ gemini.pc = "try" =>
          \A k \in CallsAt : RateLimited(k)
    /\ gemini.pc = "got" =>
          \A k \in CallsAt : FailedOtherwise(k) => \A n \in CallsAt : n <= k

\* C20: one _call_gemini invocation makes at most 3 provider calls and always
\* ends, returning text or raising: it calls again only after a rate-limit
\* (429 / quota) failure, sleeps before each further call, raises after the
\* third rate-limit failure, and ends with the attempt on which any other
\* failure happens.
C20_BoundedRetry ==
    /\ []C20_Bounded
    /\ (gemini.pc \in {"try", "got"}) ~> (gemini.pc \in {"returned", "raised"})

\* three calls, each failed with a rate limit, two sleeps of 12 s and 24 s
\* between them, and the invocation raised
C20_Witness ==
    /\ gemini.pc = "raised" /\ Cardinality(CallsAt) = 3
    /\ \A k \in CallsAt : RateLimited(k)
    /\ Len(gemini.trace) = 5
    /\ gemini.trace[2] = Sleep(120) /\ gemini.trace[4] = Sleep(240)

-----------------------------------------------------------------------------
(* Claims C21 - C25 *)

\* the call that just returned bound a row whose url was already stored with
\* other field values or another spider name
Reinserted ==
    /\ db.op = "insert_article"
    /\ \E x \in articles : x.url = db.row.url /\ x # db.row

\* C21: a stored record is never changed by later inserts: an insert_article
\* call leaves every stored row, with each of its fields, its spider_name and
\* its created_at, as it was, whatever the record it is handed.
C21_StoredRowsKept ==
    [][/\ \A x \in articles : x \in articles'
       /\ \A s \in db.created_at : s \in db'.created_at]_vars

\* a url stored first as one version by one spider was handed in again as the
\* other version by the other spider, and the first row with its created_at
\* is the one stored
C21_Witness ==
    /\ Reinserted
    /\ db.result = FALSE
    /\ \E x \in articles :
          /\ x.url = db.row.url
          /\ x.spider_name # db.row.spider_name
          /\ x.title # db.row.title
          /\ \E s \in db.created_at : s[1] = x.url /\ s[2] < db.calls


\* C22: a per-record fault never aborts the run: whatever records a run has
\* been handed (without url, of a stored url, or meeting a storage fault in
\* execute or commit), process_item has returned the item without raising, and
\* a record of a url not yet stored whose own insert met no fault is stored
\* when process_item returns, also after earlier faults of the run.
C22_FaultsIsolated ==
    \A r \in Runs :
        Returned(r) =>
            /\ ~call[r].raised
            /\ (~call[r].fault /\ call[r].absent /\ cur[r].url # None) =>
                  HasUrl(articles, cur[r].url)

\* a run whose commit failed on one record (the transaction left open) was
\* handed a record of another url afterwards, and that record is stored
C22_Witness ==
    \E r \in Runs :
        /\ Returned(r) /\ ~call[r].fault /\ call[r].absent /\ ret[r]
        /\ HasUrl(call[r].delta, cur[r].url)
        /\ \E x \in call[r].delta : x.url # cur[r].url


\* the partition a date lies in, named by its first day
PartitionOfDate(d) == PartitionOf(SitemapUrl(1, d))

\* the partitions that intersect [effective_start, window.end]: from the one
\* the effective start lies in, partition by partition, up to window.end
PartitionsOfWindow ==
    LET first == date_range(PartitionOfDate(plan.date_range[1]), plan.date_range[2],
                            plan.sitemap_type)
    IN  {first[k] : k \in 1..Len(first)}

\* the number of targets emitted for partition p and sitemap pattern j
TimesEmitted(p, j) ==
    Cardinality({k \in 1..Len(plan.emitted) :
                    PartitionOf(plan.emitted[k]) = p /\ plan.emitted[k].pattern = j})

\* C23: for every window with effective_start <= window.end, the first target
\* start_requests emits is the partition (day, month or year) that contains
\* window.end, and (no cap being set) every partition that intersects
\* [effective_start, window.end] is emitted exactly once per sitemap pattern,
\* also when effective_start is not on a partition boundary.
C23_WindowCovered ==
    (Finished /\ ~DateLT(plan.date_range[2], plan.date_range[1])) =>
        /\ plan.emitted # <<>>
        /\ PartitionOf(plan.emitted[1]) = PartitionOfDate(plan.window[2])
        /\ plan.cap = 0 =>
              \A p \in PartitionsOfWindow, j \in 1..plan.npatterns :
                  TimesEmitted(p, j) = 1


\* start_requests is past its set-up: it raised, or reached the loop over
\* sitemap_dates
SetupFinished == plan.pc \in {"raised", "loop", "done"}

\* C24: every store handle opened during run setup is closed again before
\* setup finishes, on the success path and on the path where the lookup raises
\* and the warning is logged; stated here for the handles the planner's resume
\* lookup opens in update mode.
C24_SetupHandlesClosed ==
    SetupFinished => plan.open_handles = 0


\* the stored rows published on a day from start_date to end_date, that pass
\* the other filters supplied as well
PublishedWithin(f) == {row \in articles : Satisfies(row, f)}

\* C25: get_articles and get_article_count with a date range [start, end]
\* given as calendar dates include every stored record published on any day
\* from start to end inclusive, also the records whose date_published is a
\* timestamp with a time of day on the end date: the count is the number of
\* these records, and a query whose limit takes them all returns each of them.
C25_EndDateInclusive ==
    (db.f.start_date # None /\ db.f.end_date # None) =>
        /\ db.op = "get_article_count" =>
              db.result = Cardinality(PublishedWithin(db.f))
        /\ (db.op = "get_articles" /\ db.limit = ExportLimit /\ db.offset = 0) =>
              \A row \in PublishedWithin(db.f) :
                  \E k \in 1..Len(db.result) : db.result[k] = row


=============================================================================
